---- MODULE Spec2Model ----
(***************************************************************************)
(* Model of the subtitle timing engine of SermonClip AI (src/index.tsx):   *)
(* the PCM duration estimate and createSmartSubtitles, as generateClip     *)
(* runs them on the TTS response, and getCurrentSubtitle, as the player    *)
(* evaluates it on every audio time update; and of the App component       *)
(* around it: source processing, the wizard, the copilot input, the        *)
(* generateClip runs with every await as a step, and the clip player.      *)
(*                                                                         *)
(* Text is a sequence of one-character strings.  A JavaScript number is a  *)
(* fraction [num, den] in lowest terms; den = 0 stands for a non-finite    *)
(* value (num = 0: NaN, num = 1: Infinity, num = -1: -Infinity).           *)
(***************************************************************************)
EXTENDS Integers, Sequences, FiniteSets, TLC

VARIABLES
    quote,                 \* config.quote
    pc,                    \* wizard step and position of the generateClip run
    pcmLength,             \* pcmData.length of the TTS response
    audioDurationSeconds,  \* local of generateClip
    subtitles,             \* local of generateClip
    videoData,             \* null or the stored result
    currentTime            \* playback time, set by the audio element

VARIABLES
    step,                  \* wizard step
    config,                \* config.voice, config.themeId, config.mood
    loading,               \* loading flag
    error,                 \* null or the error text
    messages,              \* the widgets in the message list
    sourceCalls,           \* handleProcessSource calls awaiting the AI reply
    copilotCalls,          \* handleCopilotCommand calls awaiting the AI reply
    runs,                  \* the generateClip calls, each with its locals
    currentClipIndex,      \* index of the clip shown by the video element
    isPlaying,             \* play/pause flag
    videoPlaying           \* the video element is playing its clip

\* the locals of the generateClip run that Spec and PlaybackSpec follow
runVars == <<pc, pcmLength, audioDurationSeconds, subtitles>>

\* the App state outside the player
appVars == <<step, config, loading, error, messages, sourceCalls, copilotCalls, runs>>

\* the clip player
playerVars == <<currentClipIndex, isPlaying, videoPlaying>>

vars == <<quote, runVars, videoData, currentTime, appVars, playerVars>>

---------------------------------------------------------------------------
(* JavaScript numbers *)

Abs(x) == IF x < 0 THEN -x ELSE x

RECURSIVE GCD(_, _)
GCD(a, b) == IF b = 0 THEN a ELSE GCD(b, a % b)

Sign(x) == IF x > 0 THEN 1 ELSE IF x < 0 THEN -1 ELSE 0

\* n / d as a number: lowest terms, positive denominator; x/0 is non-finite.
Frac(n, d) ==
    IF d = 0 THEN [num |-> Sign(n), den |-> 0]
    ELSE LET g == GCD(Abs(n), Abs(d))
         IN  [num |-> Sign(d) * (n \div g), den |-> Abs(d) \div g]

Num(n) == [num |-> n, den |-> 1]

NaN == [num |-> 0, den |-> 0]

IsFinite(x) == x.den # 0

IsNaN(x) == x.den = 0 /\ x.num = 0

\* a / b
NumDiv(a, b) ==
    IF IsNaN(a) \/ IsNaN(b) THEN NaN
    ELSE IF ~IsFinite(a) THEN (IF IsFinite(b) THEN [num |-> a.num * (IF b.num < 0 THEN -1 ELSE 1), den |-> 0] ELSE NaN)
    ELSE IF ~IsFinite(b) THEN Num(0)
    ELSE Frac(a.num * b.den, a.den * b.num)

\* a * b
NumMul(a, b) ==
    IF IsNaN(a) \/ IsNaN(b) THEN NaN
    ELSE IF ~IsFinite(a) \/ ~IsFinite(b)
         THEN (IF a.num = 0 \/ b.num = 0 THEN NaN ELSE [num |-> Sign(a.num) * Sign(b.num), den |-> 0])
    ELSE Frac(a.num * b.num, a.den * b.den)

\* a + b
NumAdd(a, b) ==
    IF IsNaN(a) \/ IsNaN(b) THEN NaN
    ELSE IF ~IsFinite(a) THEN (IF ~IsFinite(b) /\ b.num # a.num THEN NaN ELSE a)
    ELSE IF ~IsFinite(b) THEN b
    ELSE Frac(a.num * b.den + b.num * a.den, a.den * b.den)

\* a <= b (false when either side is NaN)
NumLe(a, b) ==
    IF IsNaN(a) \/ IsNaN(b) THEN FALSE
    ELSE IF ~IsFinite(a) THEN (a.num < 0 \/ (~IsFinite(b) /\ b.num > 0))
    ELSE IF ~IsFinite(b) THEN b.num > 0
    ELSE a.num * b.den <= b.num * a.den

\* a >= b
NumGe(a, b) == NumLe(b, a)

\* a === b (false when either side is NaN)
NumEq(a, b) == ~IsNaN(a) /\ ~IsNaN(b) /\ a = b

\* a < b
NumLt(a, b) == NumLe(a, b) /\ ~NumEq(a, b)

\* !x : 0 and NaN are falsy
Falsy(x) == IsNaN(x) \/ (IsFinite(x) /\ x.num = 0)

---------------------------------------------------------------------------
(* Strings *)

\* the characters \s matches and trim() strips, among those the model uses
WhiteSpace == {" ", "\t", "\n"}

\* fullText.replace(/\s+/g, ' '): every maximal run of whitespace becomes one
\* space; a whitespace character followed by another is dropped ("" marks it),
\* the last of a run becomes " "
ReplaceWhitespaceRuns(s) ==
    LET replaced == [i \in 1..Len(s) |->
                        IF s[i] \notin WhiteSpace THEN s[i]
                        ELSE IF i < Len(s) /\ s[i + 1] \in WhiteSpace THEN ""
                        ELSE " "]
    IN  SelectSeq(replaced, LAMBDA c : c # "")

RECURSIVE TrimStart(_)
TrimStart(s) ==
    IF s # <<>> /\ Head(s) \in WhiteSpace THEN TrimStart(Tail(s)) ELSE s

RECURSIVE TrimEnd(_)
TrimEnd(s) ==
    IF s # <<>> /\ s[Len(s)] \in WhiteSpace THEN TrimEnd(SubSeq(s, 1, Len(s) - 1)) ELSE s

\* String.prototype.trim
Trim(s) == TrimEnd(TrimStart(s))

\* the positions of the separator in s, in order
SeparatorPositions(s, separator) ==
    SelectSeq([i \in 1..Len(s) |-> i], LAMBDA i : s[i] = separator)

\* cleanText.split(' '): the pieces between single spaces; "" splits into [""]
Split(s) ==
    LET at == SeparatorPositions(s, " ")
    IN  [k \in 1..(Len(at) + 1) |->
            SubSeq(s,
                   IF k = 1 THEN 1 ELSE at[k - 1] + 1,
                   IF k = Len(at) + 1 THEN Len(s) ELSE at[k] - 1)]

RECURSIVE JoinNoSeparator(_)
JoinNoSeparator(arr) ==
    IF arr = <<>> THEN <<>> ELSE arr[1] \o JoinNoSeparator(Tail(arr))

\* array.join(' ')
RECURSIVE Join(_)
Join(arr) ==
    IF arr = <<>> THEN <<>>
    ELSE IF Len(arr) = 1 THEN arr[1]
    ELSE arr[1] \o <<" ">> \o Join(Tail(arr))

---------------------------------------------------------------------------
(* createSmartSubtitles *)

LongChunkLength == 25

MinBreakWords == 2

MaxChunkWords == 6

SentenceEnd == {".", "!", "?"}

\* const cleanText = fullText.replace(/\s+/g, ' ').trim()
CleanText(fullText) == Trim(ReplaceWhitespaceRuns(fullText))

\* /[.!?]$/.test(word)
EndsWithPunctuation(word) == word # <<>> /\ word[Len(word)] \in SentenceEnd

NaturalBreakNoMinimum(currentChunk, word) ==
    Len(Join(currentChunk)) > LongChunkLength \/ EndsWithPunctuation(word)

\* (chunkString.length > 25 || endsWithPunctuation) && currentChunk.length >= 2
NaturalBreak(currentChunk, word) ==
    /\ Len(Join(currentChunk)) > LongChunkLength \/ EndsWithPunctuation(word)
    /\ Len(currentChunk) >= MinBreakWords

ForcedBreakOffByOne(currentChunk) == Len(currentChunk) > MaxChunkWords

\* else if (currentChunk.length >= 6)
ForcedBreak(currentChunk) == Len(currentChunk) >= MaxChunkWords

PushLeftoverForgotten(currentChunk, chunks) == chunks

\* if (currentChunk.length > 0) chunks.push(currentChunk.join(' '))
PushLeftover(currentChunk, chunks) ==
    IF Len(currentChunk) > 0 THEN Append(chunks, Join(currentChunk)) ELSE chunks

\* words.forEach(...) from word i on, then the push of what is left over
RECURSIVE ChunkFrom(_, _, _, _)
ChunkFrom(words, i, currentChunk, chunks) ==
    IF i > Len(words)
    THEN PushLeftover(currentChunk, chunks)
    ELSE LET pushed == Append(currentChunk, words[i])
         IN  IF NaturalBreak(pushed, words[i])
             THEN ChunkFrom(words, i + 1, <<>>, Append(chunks, Join(pushed)))
             ELSE IF ForcedBreak(pushed)
             THEN ChunkFrom(words, i + 1, <<>>, Append(chunks, Join(pushed)))
             ELSE ChunkFrom(words, i + 1, pushed, chunks)

MakeChunks(fullText) == ChunkFrom(Split(CleanText(fullText)), 1, <<>>, <<>>)

SegmentDurationDivided(chunkLen, totalChars, totalDuration) ==
    NumDiv(NumDiv(Num(chunkLen), Num(totalChars)), totalDuration)

\* const duration = (chunkLen / totalChars) * totalDuration
SegmentDuration(chunkLen, totalChars, totalDuration) ==
    NumMul(NumDiv(Num(chunkLen), Num(totalChars)), totalDuration)

\* const segment = { text: chunk, start: currentTime, end: currentTime + duration }
MakeSegment(chunk, now, duration) ==
    [text |-> chunk, start |-> now, end |-> NumAdd(now, duration)]

AdvanceAssigned(now, duration) == duration

\* currentTime += duration
Advance(now, duration) == NumAdd(now, duration)

\* chunks.map(...) from chunk i on, with the running currentTime
RECURSIVE MapFrom(_, _, _, _, _)
MapFrom(chunks, i, now, totalChars, totalDuration) ==
    IF i > Len(chunks) THEN <<>>
    ELSE LET duration == SegmentDuration(Len(chunks[i]), totalChars, totalDuration)
         IN  <<MakeSegment(chunks[i], now, duration)>>
             \o MapFrom(chunks, i + 1, Advance(now, duration), totalChars, totalDuration)

createSmartSubtitles(fullText, totalDuration) ==
    MapFrom(MakeChunks(fullText), 1, Num(0), Len(CleanText(fullText)), totalDuration)

---------------------------------------------------------------------------
(* getCurrentSubtitle *)

\* videoData before the first result and after generateClip clears it
null == [isNull |-> TRUE]

SegmentMatchesHalfOpen(seg, t) == NumGe(t, seg.start) /\ NumLt(t, seg.end)

\* seg => currentTime >= seg.start && currentTime <= seg.end
SegmentMatches(seg, t) == NumGe(t, seg.start) /\ NumLe(t, seg.end)

\* Array.prototype.find: the index of the first match, 0 when there is none
FindIndex(subs, t) ==
    IF \E i \in 1..Len(subs) : SegmentMatches(subs[i], t)
    THEN CHOOSE i \in 1..Len(subs) :
            /\ SegmentMatches(subs[i], t)
            /\ \A j \in 1..(i - 1) : ~SegmentMatches(subs[j], t)
    ELSE 0

\* the caption shown for stored result vd at playback time t; "" is <<>>
getCurrentSubtitle(vd, t) ==
    IF vd = null \/ Falsy(t) THEN <<>>
    ELSE LET i == FindIndex(vd.subtitles, t)
         IN  IF i = 0 THEN <<>> ELSE vd.subtitles[i].text

---------------------------------------------------------------------------
(* Inputs: the quotes a user can select and the sizes of the PCM payload *)

MaxWords == 7

MaxMessyWords == 3

MaxPlaybackWords == 5

MaxHalfSeconds == 4

ShortWord == <<"a">>

SentenceWord == <<"n", "o", ".">>

LongWord == <<"u", "n", "d", "e", "r", "s", "t", "a", "n", "d", "i", "n", "g">>

BaseWords == {ShortWord, SentenceWord, LongWord}

AllWords == BaseWords \cup {<<"o", "k", "?">>, <<"e", ".", "g">>}

\* how a text is padded and its words are separated: lead, sep, trail
WhitespaceStyles ==
    { [lead |-> <<>>,           sep |-> <<" ", " ">>, trail |-> <<>>],
      [lead |-> <<" ">>,        sep |-> <<" ">>,      trail |-> <<>>],
      [lead |-> <<>>,           sep |-> <<" ">>,      trail |-> <<"\n">>],
      [lead |-> <<"\n", "\t">>, sep |-> <<"\t">>,     trail |-> <<" ", " ">>] }

WordLists(vocabulary, n) == UNION {[1..k -> vocabulary] : k \in 0..n}

RECURSIVE JoinWith(_, _)
JoinWith(arr, sep) ==
    IF arr = <<>> THEN <<>>
    ELSE IF Len(arr) = 1 THEN arr[1]
    ELSE arr[1] \o sep \o JoinWith(Tail(arr), sep)

\* quotes of up to n words separated by single spaces
PlainQuotes(n) == {JoinWith(ws, <<" ">>) : ws \in WordLists(BaseWords, n)}

\* quotes of up to n words with whitespace around them and runs of it between them
MessyQuotes(n) ==
    {st.lead \o JoinWith(ws, st.sep) \o st.trail :
        ws \in WordLists(AllWords, n), st \in WhitespaceStyles}

\* "Faith is not about everything turning out okay. It's about trusting God
\* even when it doesn't."
ScenarioWords ==
    << <<"F", "a", "i", "t", "h">>,
       <<"i", "s">>,
       <<"n", "o", "t">>,
       <<"a", "b", "o", "u", "t">>,
       <<"e", "v", "e", "r", "y", "t", "h", "i", "n", "g">>,
       <<"t", "u", "r", "n", "i", "n", "g">>,
       <<"o", "u", "t">>,
       <<"o", "k", "a", "y", ".">>,
       <<"I", "t", "'", "s">>,
       <<"a", "b", "o", "u", "t">>,
       <<"t", "r", "u", "s", "t", "i", "n", "g">>,
       <<"G", "o", "d">>,
       <<"e", "v", "e", "n">>,
       <<"w", "h", "e", "n">>,
       <<"i", "t">>,
       <<"d", "o", "e", "s", "n", "'", "t", ".">> >>

ScenarioText == JoinWith(ScenarioWords, <<" ">>)

Quotes == PlainQuotes(MaxWords) \cup MessyQuotes(MaxMessyWords)

ChunkingQuotes == Quotes \cup {ScenarioText}

PlaybackQuotes == PlainQuotes(MaxPlaybackWords) \cup MessyQuotes(1)

---------------------------------------------------------------------------
(* generateClip: the PCM duration estimate *)

sampleRate == 24000

numChannels == 1

bytesPerSample == 2

\* audioDurationSeconds = pcmData.length / (sampleRate * numChannels * bytesPerSample),
\* then assigned again as pcmData.length / 48000
HardCodedBytesPerSecond == 48000

AudioDurationPerSample(byteLength) ==
    NumDiv(Num(byteLength), Num(sampleRate * numChannels))

AudioDuration(byteLength) ==
    LET first == NumDiv(Num(byteLength), Num(sampleRate * numChannels * bytesPerSample))
        second == NumDiv(Num(byteLength), Num(HardCodedBytesPerSecond))
    IN  second

\* payload sizes: whole half seconds of 24 kHz mono 16-bit audio
PcmLengths ==
    {k * ((sampleRate * numChannels * bytesPerSample) \div 2) : k \in 0..MaxHalfSeconds}

\* six seconds of audio
ScenarioPcmLength == 6 * sampleRate * numChannels * bytesPerSample

\* Veo clips are assumed to cover 5 seconds each
CLIP_LENGTH == 5

\* Math.ceil of a finite number
Ceil(x) == -((-x.num) \div x.den)

\* clipsNeeded = Math.ceil(audioDurationSeconds / CLIP_LENGTH)
clipsNeeded(duration) == Ceil(NumDiv(duration, Num(CLIP_LENGTH)))

\* the storyboard reply parses to an array of up to MaxPrompts prompts
MaxPrompts == 2

PromptCounts == 0..MaxPrompts

\* the length of prompts after while (prompts.length < clipsNeeded) prompts.push(prompts[0])
ClipCount(promptCount, needed) == IF promptCount < needed THEN needed ELSE promptCount

\* videoUrls: one object URL per prompt, in the order of the prompts
ClipUrls(n) == [k \in 1..n |-> k]

\* { sequence: videoUrls, audioUrl: audioBlobUrl, subtitles }; the audio behind
\* audioUrl is kept as its duration
StoredResult(clips, duration, subs) ==
    [isNull |-> FALSE, sequence |-> ClipUrls(clips), duration |-> duration, subtitles |-> subs]

---------------------------------------------------------------------------
(* The App component: values of its state *)

Voices == {"male", "female"}

\* useState({ quote: '', voice: 'male', themeId: 'ethereal_light', mood: 'Inspiring', ... });
\* config.quote is the variable quote
InitialConfig == [voice |-> "male", themeId |-> "ethereal_light", mood |-> "Inspiring"]

\* { ...prev, ...updates }: updates is a set of <<key, value>> pairs
Merge(prev, updates) ==
    [k \in DOMAIN prev |->
        IF \E u \in updates : u[1] = k
        THEN (CHOOSE u \in updates : u[1] = k)[2]
        ELSE prev[k]]

\* a message that renders a widget; quotes is the data of a quote-select
\* message, updates the data.updates of a suggestion message
Widget(type, quotes, updates) == [type |-> type, quotes |-> quotes, updates |-> updates]

SourceInputWidget == Widget("source-input", <<>>, {})

QuoteSelectWidget(quotes) == Widget("quote-select", quotes, {})

StepWidget(type) == Widget(type, <<>>, {})

SuggestionWidget(updates) == Widget("suggestion", <<>>, updates)

\* an error text, as the pieces it is concatenated from
ErrorText(pieces) == [isNull |-> FALSE, text |-> pieces]

\* "Failed to generate clip: " + errorMessage, without the prefix
GenerateErrorBare(errorMessage) == ErrorText(<<errorMessage>>)

\* "Failed to generate clip: " + errorMessage
GenerateError(errorMessage) == ErrorText(<<"Failed to generate clip: ", errorMessage>>)

ProcessError ==
    ErrorText(<<"Failed to process text. Please try a shorter segment or check the format.">>)

\* the fallback of handleProcessSource applies below this input length
FallbackLimit == 300

\* input.length < 300, with the limit included
ShortEnoughInclusive(input) == Len(input) <= FallbackLimit

\* input.length < 300
ShortEnough(input) == Len(input) < FallbackLimit

\* at most MaxRuns generateClip calls are followed at a time
MaxRuns == 2

RunIds == 1..MaxRuns

\* a generateClip call: its position (pc), the config and quote its closure
\* holds, its locals, the requests it has issued, the number of calls of
\* createSmartSubtitles it has made, and whether it has stored a result; when
\* the call returns its slot is idle again
IdleRun ==
    [pc |-> "idle", quote |-> <<>>, config |-> InitialConfig, audio |-> "pending",
     audioDurationSeconds |-> Num(0), subtitles |-> <<>>, subtitleCalls |-> 0,
     requests |-> {}, clips |-> 0, stored |-> FALSE]

Active(run) == run.pc \in {"tts", "storyboard", "videos", "suggestion"}

\* the slot a new call takes: the first one whose call has returned
FreeSlot(r) ==
    /\ ~Active(runs[r])
    /\ \A s \in 1..(r - 1) : Active(runs[s])

\* the call up to its first await: the TTS request for the closure's config
StartedRun(q, cfg) ==
    [IdleRun EXCEPT !.pc = "tts", !.quote = q, !.config = cfg, !.requests = {"tts"}]

\* lines 821-854 without the call of createSmartSubtitles
WithAudioUnsubtitled(run, n) ==
    [run EXCEPT !.pc = "storyboard",
                !.audio = "data",
                !.audioDurationSeconds = AudioDuration(n),
                !.requests = @ \cup {"storyboard"}]

\* the TTS response carries n bytes of audio: duration, subtitles, and the
\* storyboard request
WithAudio(run, n) ==
    [run EXCEPT !.pc = "storyboard",
                !.audio = "data",
                !.audioDurationSeconds = AudioDuration(n),
                !.subtitles = createSmartSubtitles(run.quote, AudioDuration(n)),
                !.subtitleCalls = @ + 1,
                !.requests = @ \cup {"storyboard"}]

\* the storyboard reply parses to promptCount prompts: one video request each
WithPrompts(run, promptCount) ==
    LET clips == ClipCount(promptCount, clipsNeeded(run.audioDurationSeconds))
    IN  [run EXCEPT !.pc = "videos",
                    !.clips = clips,
                    !.requests = IF clips > 0 THEN @ \cup {"video"} ELSE @]

\* all videos have arrived: the result is stored and the suggestion requested
WithResult(run) ==
    [run EXCEPT !.pc = "suggestion", !.stored = TRUE, !.requests = @ \cup {"suggestion"}]

NoAudio == "Failed to generate audio."

\* what can be thrown at each await of generateClip, as the message of the error
FailuresAt(run) ==
    CASE run.pc = "tts" -> {NoAudio}
      [] run.pc = "storyboard" -> {"Unexpected token"}
      [] run.pc = "videos" ->
            IF run.clips > 0
            THEN {"operation error", "Missing video URI", "Failed to fetch"}
            ELSE {}
      [] run.pc = "suggestion" -> {"Request failed"}
      [] OTHER -> {}

\* setVideoData(null), left out
KeptVideoData(vd) == vd

\* setVideoData(null)
ClearedVideoData(vd) == null

\* the video element shows a clip of the stored sequence
ClipShown(vd, index) == vd # null /\ index < Len(vd.sequence)

---------------------------------------------------------------------------
(* The App component: quote selection, generateClip, playback *)

Init ==
    /\ quote = <<>>
    /\ pc = "quote"
    /\ pcmLength = 0
    /\ audioDurationSeconds = Num(0)
    /\ subtitles = <<>>
    /\ videoData = null
    /\ currentTime = Num(0)
    /\ step = "source"
    /\ config = InitialConfig
    /\ loading = FALSE
    /\ error = null
    /\ messages = {SourceInputWidget}
    /\ sourceCalls = {}
    /\ copilotCalls = 0
    /\ runs = [r \in RunIds |-> IdleRun]
    /\ currentClipIndex = 0
    /\ isPlaying = FALSE
    /\ videoPlaying = FALSE

\* QuoteSelect onSelect: setConfig(prev => ({ ...prev, quote: q.text })) for one
\* of the offered quotes; the wizard then runs on to the confirmation step.
SelectQuote(quotes) ==
    /\ pc = "quote"
    /\ \E q \in quotes : quote' = q
    /\ pc' = "confirm"
    /\ UNCHANGED <<pcmLength, audioDurationSeconds, subtitles, videoData, currentTime>>
    /\ UNCHANGED <<appVars, playerVars>>

\* generateClip up to the await of the TTS request
StartGenerate ==
    /\ pc \in {"confirm", "done"}
    /\ pc' = "tts"
    /\ videoData' = null
    /\ pcmLength' = 0
    /\ audioDurationSeconds' = Num(0)
    /\ subtitles' = <<>>
    /\ currentClipIndex' = 0
    /\ videoPlaying' = FALSE
    /\ UNCHANGED <<quote, currentTime, appVars, isPlaying>>

\* the TTS response carries inline audio data of n bytes: duration estimate
\* and subtitle timings, up to the await of the storyboard request
AudioReceived(n) ==
    /\ pc = "tts"
    /\ pcmLength' = n
    /\ audioDurationSeconds' = AudioDuration(n)
    /\ subtitles' = createSmartSubtitles(quote, AudioDuration(n))
    /\ pc' = "storyboard"
    /\ UNCHANGED <<quote, videoData, currentTime, appVars, playerVars>>

\* the TTS response carries no audio data: throw new Error("Failed to generate
\* audio."), caught at the end of generateClip, setStep('confirm')
AudioMissing ==
    /\ pc = "tts"
    /\ pc' = "confirm"
    /\ UNCHANGED <<quote, pcmLength, audioDurationSeconds, subtitles, videoData, currentTime>>
    /\ UNCHANGED <<appVars, playerVars>>

\* storyboard, with one of promptCounts prompts, and videos have arrived:
\* setVideoData({ sequence: videoUrls, audioUrl: audioBlobUrl, subtitles }); setStep('done')
StoreVideoData(promptCounts) ==
    /\ pc = "storyboard"
    /\ \E promptCount \in promptCounts :
          videoData' = StoredResult(ClipCount(promptCount, clipsNeeded(audioDurationSeconds)),
                                    audioDurationSeconds, subtitles)
    /\ pc' = "done"
    /\ videoPlaying' = FALSE
    /\ UNCHANGED <<quote, pcmLength, audioDurationSeconds, subtitles, currentTime>>
    /\ UNCHANGED <<appVars, currentClipIndex, isPlaying>>

\* the positions the audio element can report for a result: 0, the end of the
\* audio, and the start, middle and end of every caption window inside it
PlaybackTimes(vd) ==
    LET marks == UNION {{vd.subtitles[i].start,
                         vd.subtitles[i].end,
                         NumDiv(NumAdd(vd.subtitles[i].start, vd.subtitles[i].end), Num(2))} :
                        i \in 1..Len(vd.subtitles)}
    IN  {t \in marks \cup {Num(0), vd.duration} : NumLe(Num(0), t) /\ NumLe(t, vd.duration)}

\* audio onTimeUpdate: setCurrentTime(e.currentTarget.currentTime)
TimeUpdate ==
    /\ videoData # null
    /\ \E t \in PlaybackTimes(videoData) : currentTime' = t
    /\ UNCHANGED <<quote, runVars, videoData, appVars, playerVars>>

\* handleAudioEnded: setCurrentClipIndex(0), the video paused at its start,
\* setIsPlaying(false), setCurrentTime(0)
handleAudioEnded ==
    /\ videoData # null
    /\ currentClipIndex' = 0
    /\ videoPlaying' = FALSE
    /\ isPlaying' = FALSE
    /\ currentTime' = Num(0)
    /\ UNCHANGED <<quote, runVars, videoData, appVars>>

Next ==
    \/ SelectQuote(Quotes)
    \/ StartGenerate
    \/ \E n \in PcmLengths : AudioReceived(n)
    \/ AudioMissing
    \/ StoreVideoData({1})

Spec == Init /\ [][Next]_vars

\* the same component with playback, over the shorter quotes
PlaybackNext ==
    \/ SelectQuote(PlaybackQuotes)
    \/ StartGenerate
    \/ \E n \in PcmLengths : AudioReceived(n)
    \/ AudioMissing
    \/ StoreVideoData({1})
    \/ TimeUpdate
    \/ handleAudioEnded

PlaybackSpec == Init /\ [][PlaybackNext]_vars

\* the same component over the quotes and the scenario sentence, with six
\* seconds of audio
ChunkingNext ==
    \/ SelectQuote(ChunkingQuotes)
    \/ StartGenerate
    \/ AudioReceived(ScenarioPcmLength)
    \/ AudioMissing
    \/ StoreVideoData({1})

ChunkingSpec == Init /\ [][ChunkingNext]_vars

---------------------------------------------------------------------------
(* The App component: source processing, the wizard, the copilot input *)

\* at most MaxSourceCalls calls of handleProcessSource and MaxCopilotCalls
\* calls of handleCopilotCommand await their reply at a time
MaxSourceCalls == 1

MaxCopilotCalls == 1

\* handleProcessSource up to its await: setLoading(true) and the request
handleProcessSource(input) ==
    /\ input \notin sourceCalls
    /\ Cardinality(sourceCalls) < MaxSourceCalls
    /\ sourceCalls' = sourceCalls \cup {input}
    /\ loading' = TRUE
    /\ UNCHANGED <<quote, runVars, videoData, currentTime, playerVars>>
    /\ UNCHANGED <<step, config, error, messages, copilotCalls, runs>>

\* SourceInput: the Process Input button, disabled={isLoading || !text.trim()}
ClickProcess(input) ==
    /\ SourceInputWidget \in messages
    /\ ~loading
    /\ Trim(input) # <<>>
    /\ handleProcessSource(input)

\* the reply parses to a list of quotes: setStep('quote'), the quote-select
\* message, and finally setLoading(false)
SourceReply(input, quotes) ==
    /\ input \in sourceCalls
    /\ sourceCalls' = sourceCalls \ {input}
    /\ step' = "quote"
    /\ messages' = messages \cup {QuoteSelectWidget(quotes)}
    /\ loading' = FALSE
    /\ UNCHANGED <<quote, runVars, videoData, currentTime, playerVars>>
    /\ UNCHANGED <<config, error, copilotCalls, runs>>

\* the request throws or the reply does not parse: the catch block, and
\* finally setLoading(false)
SourceFails(input) ==
    /\ input \in sourceCalls
    /\ sourceCalls' = sourceCalls \ {input}
    /\ IF ShortEnough(input)
       THEN /\ step' = "quote"
            /\ messages' = messages \cup {QuoteSelectWidget(<<input>>)}
            /\ error' = error
       ELSE /\ error' = ProcessError
            /\ UNCHANGED <<step, messages>>
    /\ loading' = FALSE
    /\ UNCHANGED <<quote, runVars, videoData, currentTime, playerVars>>
    /\ UNCHANGED <<config, copilotCalls, runs>>

\* a wizard widget sets step and appends the next widget
WizardStep(next, widget) ==
    /\ step' = next
    /\ messages' = messages \cup {StepWidget(widget)}
    /\ UNCHANGED <<runVars, videoData, currentTime, playerVars>>
    /\ UNCHANGED <<loading, error, sourceCalls, copilotCalls, runs>>

\* QuoteSelect onSelect, on a quote of a quote-select message in the list
onSelectQuote(q) ==
    /\ \E m \in messages :
          /\ m.type = "quote-select"
          /\ \E i \in 1..Len(m.quotes) : m.quotes[i] = q
    /\ quote' = q
    /\ WizardStep("voice", "voice-select")
    /\ UNCHANGED config

\* VoiceSelect onSelect
onSelectVoice(v) ==
    /\ StepWidget("voice-select") \in messages
    /\ config' = [config EXCEPT !.voice = v]
    /\ WizardStep("theme", "theme-select")
    /\ UNCHANGED quote

\* ThemeSelect onSelect
onSelectTheme(id) ==
    /\ StepWidget("theme-select") \in messages
    /\ config' = [config EXCEPT !.themeId = id]
    /\ WizardStep("mood", "mood-select")
    /\ UNCHANGED quote

\* MoodSelect onSelect
onSelectMood(m) ==
    /\ StepWidget("mood-select") \in messages
    /\ config' = [config EXCEPT !.mood = m]
    /\ WizardStep("format", "format-select")
    /\ UNCHANGED quote

\* the Confirm Format button
ConfirmFormat ==
    /\ StepWidget("format-select") \in messages
    /\ WizardStep("text", "text-select")
    /\ UNCHANGED <<quote, config>>

\* TextSelect onConfirm
ConfirmText ==
    /\ StepWidget("text-select") \in messages
    /\ WizardStep("confirm", "confirmation")
    /\ UNCHANGED <<quote, config>>

\* handleCopilotCommand up to its await: at step 'source' the text goes to
\* handleProcessSource, otherwise the interpreter is asked
handleCopilotCommand(text) ==
    IF step = "source"
    THEN handleProcessSource(text)
    ELSE /\ copilotCalls < MaxCopilotCalls
         /\ copilotCalls' = copilotCalls + 1
         /\ UNCHANGED <<quote, runVars, videoData, currentTime, playerVars>>
         /\ UNCHANGED <<step, config, loading, error, messages, sourceCalls, runs>>

\* what the interpreter's reply can parse to: updates or not, and an action
CopilotReplies ==
    {[hasUpdates |-> TRUE, updates |-> {<<"voice", "female">>}, action |-> "none"],
     [hasUpdates |-> TRUE, updates |-> {<<"mood", "Peaceful">>}, action |-> "next"],
     [hasUpdates |-> FALSE, updates |-> {}, action |-> "next"],
     [hasUpdates |-> FALSE, updates |-> {}, action |-> "restart"],
     [hasUpdates |-> FALSE, updates |-> {}, action |-> "none"]}

\* window.location.reload(): the page starts again
Reload ==
    /\ quote' = <<>>
    /\ pc' = "quote"
    /\ pcmLength' = 0
    /\ audioDurationSeconds' = Num(0)
    /\ subtitles' = <<>>
    /\ videoData' = null
    /\ currentTime' = Num(0)
    /\ step' = "source"
    /\ config' = InitialConfig
    /\ loading' = FALSE
    /\ error' = null
    /\ messages' = {SourceInputWidget}
    /\ sourceCalls' = {}
    /\ copilotCalls' = 0
    /\ runs' = [r \in RunIds |-> IdleRun]
    /\ currentClipIndex' = 0
    /\ isPlaying' = FALSE
    /\ videoPlaying' = FALSE

\* the interpreter's reply has arrived and parsed: lines 772-781
CopilotReply(reply) ==
    /\ copilotCalls > 0
    /\ IF reply.hasUpdates
       THEN /\ config' = Merge(config, reply.updates)
            /\ copilotCalls' = copilotCalls - 1
            /\ UNCHANGED <<quote, runVars, videoData, currentTime, playerVars>>
            /\ UNCHANGED <<step, loading, error, messages, sourceCalls, runs>>
       ELSE IF reply.action = "restart"
       THEN Reload
       ELSE /\ copilotCalls' = copilotCalls - 1
            /\ UNCHANGED <<quote, runVars, videoData, currentTime, playerVars>>
            /\ UNCHANGED <<step, config, loading, error, messages, sourceCalls, runs>>

\* the interpreter request throws or its reply does not parse: console.error
CopilotFails ==
    /\ copilotCalls > 0
    /\ copilotCalls' = copilotCalls - 1
    /\ UNCHANGED <<quote, runVars, videoData, currentTime, playerVars>>
    /\ UNCHANGED <<step, config, loading, error, messages, sourceCalls, runs>>

\* the texts typed or pasted: nothing, a short quote, and a text of 300 characters
ShortInput == <<"a", " ", "n", "o", ".", " ", "a">>

LongInput == [i \in 1..FallbackLimit |-> "a"]

SourceInputs == {<<>>, ShortInput, LongInput}

\* the quote list a reply to the source request parses to
QuoteLists == {<<ShortInput, ShortWord>>}

WizardNext ==
    \/ \E input \in SourceInputs : ClickProcess(input)
    \/ \E input \in SourceInputs, quotes \in QuoteLists : SourceReply(input, quotes)
    \/ \E input \in SourceInputs : SourceFails(input)
    \/ \E q \in {ShortInput, ShortWord, <<>>} : onSelectQuote(q)
    \/ \E v \in Voices : onSelectVoice(v)
    \/ onSelectTheme("ethereal_light")
    \/ onSelectMood("Inspiring")
    \/ ConfirmFormat
    \/ ConfirmText
    \/ \E text \in SourceInputs : handleCopilotCommand(text)
    \/ \E reply \in CopilotReplies : CopilotReply(reply)
    \/ CopilotFails

WizardSpec == Init /\ [][WizardNext]_vars

---------------------------------------------------------------------------
(* The App component: the generateClip calls and the clip player *)

\* generateClip from its call to the await of the TTS request; q and cfg are
\* config.quote and config of the render whose handler is called
generateClip(r, q, cfg) ==
    /\ FreeSlot(r)
    /\ loading' = TRUE
    /\ step' = "generating"
    /\ error' = null
    /\ videoData' = ClearedVideoData(videoData)
    /\ currentClipIndex' = 0
    /\ videoPlaying' = FALSE
    /\ runs' = [runs EXCEPT ![r] = StartedRun(q, cfg)]
    /\ UNCHANGED <<quote, runVars, currentTime, isPlaying>>
    /\ UNCHANGED <<messages, sourceCalls, copilotCalls>>

\* Confirmation: the Generate Clip button, onClick={onGenerate}
ClickGenerate(r) ==
    /\ StepWidget("confirmation") \in messages
    /\ generateClip(r, quote, config)
    /\ UNCHANGED config

\* Suggestion onApply: setConfig(prev => ({ ...prev, ...updates })), then
\* generateClip() of the render the button belongs to
ApplySuggestion(r) ==
    \E m \in messages :
        /\ m.type = "suggestion"
        /\ config' = Merge(config, m.updates)
        /\ generateClip(r, quote, config)

\* what a step of a run leaves alone besides runs
RunStepUnchanged ==
    /\ UNCHANGED <<quote, runVars, currentTime, currentClipIndex, isPlaying>>
    /\ UNCHANGED <<config, sourceCalls, copilotCalls>>

\* await audioPromise returns inline audio data of n bytes
TtsAudio(r, n) ==
    /\ runs[r].pc = "tts"
    /\ runs' = [runs EXCEPT ![r] = WithAudio(@, n)]
    /\ RunStepUnchanged
    /\ UNCHANGED <<step, loading, error, messages, videoData, videoPlaying>>

\* the storyboard reply parses to an array of promptCount prompts
StoryboardReply(r, promptCount) ==
    /\ runs[r].pc = "storyboard"
    /\ runs' = [runs EXCEPT ![r] = WithPrompts(@, promptCount)]
    /\ RunStepUnchanged
    /\ UNCHANGED <<step, loading, error, messages, videoData, videoPlaying>>

\* await Promise.all(videoPromises) returns: setVideoData, setStep('done'),
\* and the suggestion request; the video element gets a new src
VideosDone(r) ==
    /\ runs[r].pc = "videos"
    /\ videoData' = StoredResult(runs[r].clips, runs[r].audioDurationSeconds, runs[r].subtitles)
    /\ step' = "done"
    /\ videoPlaying' = FALSE
    /\ runs' = [runs EXCEPT ![r] = WithResult(@)]
    /\ RunStepUnchanged
    /\ UNCHANGED <<loading, error, messages>>

\* the suggestion reply has arrived and parsed: the
\* suggestion message, and finally setLoading(false)
SuggestionReply(r, updates) ==
    /\ runs[r].pc = "suggestion"
    /\ messages' = messages \cup {SuggestionWidget(updates)}
    /\ loading' = FALSE
    /\ runs' = [runs EXCEPT ![r] = IdleRun]
    /\ RunStepUnchanged
    /\ UNCHANGED <<step, error, videoData, videoPlaying>>

\* an await of the run throws: the catch block, and finally setLoading(false)
RunFails(r, errorMessage) ==
    /\ errorMessage \in FailuresAt(runs[r])
    /\ error' = GenerateError(errorMessage)
    /\ step' = "confirm"
    /\ loading' = FALSE
    /\ runs' = [runs EXCEPT ![r] = IdleRun]
    /\ RunStepUnchanged
    /\ UNCHANGED <<messages, videoData, videoPlaying>>

\* the Try Again button of the error overlay
TryAgain ==
    /\ error # null
    /\ step' = "confirm"
    /\ UNCHANGED <<quote, runVars, videoData, currentTime, playerVars>>
    /\ UNCHANGED <<config, loading, error, messages, sourceCalls, copilotCalls, runs>>

\* togglePlay: play or pause both elements, setIsPlaying(!isPlaying)
togglePlay ==
    /\ videoData # null
    /\ videoPlaying' = (~isPlaying /\ ClipShown(videoData, currentClipIndex))
    /\ isPlaying' = ~isPlaying
    /\ UNCHANGED <<quote, runVars, videoData, currentTime, appVars, currentClipIndex>>

\* the index handleVideoEnded sets
EndedClipIndex(vd, index) ==
    IF vd # null /\ index < Len(vd.sequence) - 1 THEN index + 1 ELSE 0

\* the effect on [currentClipIndex]: it runs when the index has changed, and
\* plays the video if isPlaying
AutoPlay(before, after) ==
    /\ after # before
    /\ isPlaying
    /\ ClipShown(videoData, after)

\* the playing clip ends: handleVideoEnded, then the effect on the clip index
handleVideoEnded ==
    /\ videoData # null
    /\ videoPlaying
    /\ currentClipIndex' = EndedClipIndex(videoData, currentClipIndex)
    /\ videoPlaying' = AutoPlay(currentClipIndex, EndedClipIndex(videoData, currentClipIndex))
    /\ UNCHANGED <<quote, runVars, videoData, currentTime, appVars, isPlaying>>

\* the TTS payload of the runs: half a second of audio
GenPcmLengths == {(sampleRate * numChannels * bytesPerSample) \div 2}

\* the updates a suggestion carries
SuggestionUpdates == {{<<"voice", "female">>}}

\* one walk through the wizard for the quote "a no. a", then generation and
\* playback
GenNext ==
    \/ step = "source" /\ ClickProcess(ShortInput)
    \/ SourceReply(ShortInput, <<ShortInput>>)
    \/ SourceFails(ShortInput)
    \/ step = "quote" /\ onSelectQuote(ShortInput)
    \/ step = "voice" /\ onSelectVoice("male")
    \/ step = "theme" /\ onSelectTheme("ethereal_light")
    \/ step = "mood" /\ onSelectMood("Inspiring")
    \/ step = "format" /\ ConfirmFormat
    \/ step = "text" /\ ConfirmText
    \/ \E r \in RunIds : ClickGenerate(r)
    \/ \E r \in RunIds : ApplySuggestion(r)
    \/ \E r \in RunIds, n \in GenPcmLengths : TtsAudio(r, n)
    \/ \E r \in RunIds, promptCount \in PromptCounts : StoryboardReply(r, promptCount)
    \/ \E r \in RunIds : VideosDone(r)
    \/ \E r \in RunIds, updates \in SuggestionUpdates : SuggestionReply(r, updates)
    \/ \E r \in RunIds : \E errorMessage \in FailuresAt(runs[r]) : RunFails(r, errorMessage)
    \/ TryAgain
    \/ togglePlay
    \/ handleVideoEnded
    \/ handleAudioEnded

GenSpec == Init /\ [][GenNext]_vars

---------------------------------------------------------------------------
(* Vocabulary of the properties *)

\* createSmartSubtitles has run in the current generateClip run: subtitles is
\* its result for (quote, audioDurationSeconds)
Subtitled == pc \in {"storyboard", "done"}

Segments == 1..Len(subtitles)

LastSegment == subtitles[Len(subtitles)]

\* the maximal runs of non-whitespace characters of a text, in order
RECURSIVE RunsFrom(_, _, _)
RunsFrom(s, i, run) ==
    IF i > Len(s) THEN (IF run = <<>> THEN <<>> ELSE <<run>>)
    ELSE IF s[i] \in WhiteSpace
         THEN (IF run = <<>> THEN <<>> ELSE <<run>>) \o RunsFrom(s, i + 1, <<>>)
         ELSE RunsFrom(s, i + 1, Append(run, s[i]))

WordsOf(s) == RunsFrom(s, 1, <<>>)

\* the whitespace-normalized form of a text: its words, one space between them
NormalForm(s) == JoinWith(WordsOf(s), <<" ">>)

WordCount(s) == Len(WordsOf(s))

SegmentTexts == [i \in Segments |-> subtitles[i].text]

\* |a - b| <= 1e-6
WithinTolerance(a, b) ==
    /\ IsFinite(a)
    /\ IsFinite(b)
    /\ LET diff == NumAdd(a, NumMul(Num(-1), b))
       IN  Abs(diff.num) * 1000000 <= diff.den

Positive(x) == NumLt(Num(0), x)

\* the caption the player shows in this state
Caption == getCurrentSubtitle(videoData, currentTime)

\* start <= t <= end, as the lookup contract words it
Covers(seg, t) == NumLe(seg.start, t) /\ NumLe(t, seg.end)

---------------------------------------------------------------------------
(* Properties *)

\* C1: for a text with non-empty normalized form and a positive total duration,
\* the end of the last segment equals the total duration within 1e-6.
C1_LastEndIsTotalDuration ==
    (Subtitled /\ NormalForm(quote) # <<>> /\ Positive(audioDurationSeconds))
        => /\ Len(subtitles) > 0
           /\ WithinTolerance(LastSegment.end, audioDurationSeconds)

\* two chunks over a positive duration whose last window ends before it
C1_Witness ==
    /\ Subtitled
    /\ NormalForm(quote) # <<>>
    /\ Positive(audioDurationSeconds)
    /\ Len(subtitles) >= 2
    /\ NumLt(LastSegment.end, audioDurationSeconds)
    /\ ~WithinTolerance(LastSegment.end, audioDurationSeconds)

\* C2: a text whose normalized form is empty yields an empty segment list, and
\* no returned segment has a non-finite start or end or an empty text.
C2_EmptyTextYieldsNoSegments ==
    Subtitled =>
        /\ NormalForm(quote) = <<>> => subtitles = <<>>
        /\ \A i \in Segments :
              /\ IsFinite(subtitles[i].start)
              /\ IsFinite(subtitles[i].end)
              /\ subtitles[i].text # <<>>

\* a whitespace-only text over a positive duration yields a NaN-valued segment
C2_Witness ==
    /\ Subtitled
    /\ quote # <<>>
    /\ NormalForm(quote) = <<>>
    /\ Positive(audioDurationSeconds)
    /\ Len(subtitles) = 1
    /\ subtitles[1].text = <<>>
    /\ IsNaN(subtitles[1].end)

\* C3: for a text with non-empty normalized form and a positive duration the
\* segments are in time order without gaps or overlaps: the first starts at 0,
\* each end is exactly the next start, and times never decrease along the list.
C3_Contiguous ==
    (Subtitled /\ NormalForm(quote) # <<>> /\ Positive(audioDurationSeconds))
        => /\ Len(subtitles) > 0
           /\ NumEq(subtitles[1].start, Num(0))
           /\ \A i \in Segments : NumLe(subtitles[i].start, subtitles[i].end)
           /\ \A i \in Segments \ {Len(subtitles)} :
                 NumEq(subtitles[i].end, subtitles[i + 1].start)

C3_Witness ==
    /\ Subtitled
    /\ Positive(audioDurationSeconds)
    /\ Len(subtitles) >= 3
    /\ Positive(subtitles[3].start)

\* C4: the segment texts joined with single spaces, in order, are the
\* whitespace-normalized input text.
C4_TextPreserved ==
    Subtitled => Join(SegmentTexts) = NormalForm(quote)

C4_Witness ==
    /\ Subtitled
    /\ Len(subtitles) >= 2
    /\ quote # NormalForm(quote)
    /\ WordCount(LastSegment.text) = 1

\* C5: every chunk but the last has at least 2 words, and every chunk has at
\* most 6 words.
C5_ChunkBounds ==
    Subtitled =>
        \A i \in Segments :
            /\ WordCount(subtitles[i].text) <= 6
            /\ i < Len(subtitles) => WordCount(subtitles[i].text) >= 2

C5_Witness ==
    /\ Subtitled
    /\ Len(subtitles) >= 2
    /\ WordCount(subtitles[1].text) = 6
    /\ WordCount(LastSegment.text) = 1

\* C6: for every query time t >= 0, t = 0 included, the lookup returns the text
\* of the first segment in list order with start <= t <= end, and no caption
\* exactly when no segment satisfies that.
C6_LookupIsFirstMatch ==
    (videoData # null /\ NumLe(Num(0), currentTime)) =>
        LET subs == videoData.subtitles
            hits == {i \in 1..Len(subs) : Covers(subs[i], currentTime)}
        IN  /\ hits = {} <=> Caption = <<>>
            /\ hits # {} =>
                  \E i \in hits : /\ \A j \in hits : i <= j
                                  /\ Caption = subs[i].text

\* at time 0 the first window of a positive-length result holds 0 and no
\* caption is shown
C6_Witness ==
    /\ videoData # null
    /\ currentTime = Num(0)
    /\ Len(videoData.subtitles) >= 1
    /\ Covers(videoData.subtitles[1], currentTime)
    /\ Positive(videoData.subtitles[1].end)
    /\ Caption = <<>>

\* C7: a positive query time equal to the shared boundary of two consecutive
\* segments returns the earlier segment's text, and a query time greater than
\* the last segment's end returns no caption.
C7_BoundaryAndBeyond ==
    videoData # null =>
        LET subs == videoData.subtitles
        IN  /\ \A i \in 1..(Len(subs) - 1) :
                  ( /\ Positive(currentTime)
                    /\ NumEq(currentTime, subs[i].end)
                    /\ NumEq(currentTime, subs[i + 1].start) )
                  => Caption = subs[i].text
            /\ (Len(subs) > 0 /\ NumLt(subs[Len(subs)].end, currentTime))
                  => Caption = <<>>

C7_Witness ==
    /\ videoData # null
    /\ Len(videoData.subtitles) >= 3
    /\ Positive(currentTime)
    /\ NumEq(currentTime, videoData.subtitles[2].end)
    /\ NumEq(currentTime, videoData.subtitles[3].start)
    /\ Caption = videoData.subtitles[2].text
    /\ Caption # videoData.subtitles[3].text

\* C8: the narration duration is the PCM byte count divided by 48000, which is
\* byteCount / (sampleRate * channels * bytesPerSample): 48000 bytes are 1
\* second, 96000 bytes 2 seconds, 0 bytes 0 seconds.
C8_DurationIsBytesOver48000 ==
    Subtitled =>
        /\ audioDurationSeconds = Frac(pcmLength, 48000)
        /\ audioDurationSeconds = Frac(pcmLength, sampleRate * numChannels * bytesPerSample)
        /\ pcmLength = 0 => audioDurationSeconds = Num(0)
        /\ pcmLength = 48000 => audioDurationSeconds = Num(1)
        /\ pcmLength = 96000 => audioDurationSeconds = Num(2)

C8_Witness ==
    /\ Subtitled
    /\ pcmLength = 96000
    /\ audioDurationSeconds = Num(2)

\* C9: for a text with non-empty normalized form and total duration 0, every
\* segment has start = 0 and end = 0.
C9_ZeroDurationCollapses ==
    (Subtitled /\ NormalForm(quote) # <<>> /\ NumEq(audioDurationSeconds, Num(0)))
        => /\ Len(subtitles) > 0
           /\ \A i \in Segments :
                 /\ NumEq(subtitles[i].start, Num(0))
                 /\ NumEq(subtitles[i].end, Num(0))

C9_Witness ==
    /\ Subtitled
    /\ NumEq(audioDurationSeconds, Num(0))
    /\ Len(subtitles) >= 2
    /\ NumEq(LastSegment.end, Num(0))

\* C10: every returned segment, for every text and every total duration >= 0,
\* has non-empty whitespace-normalized text, start >= 0 and end > start.
C10_SegmentWellFormed ==
    Subtitled =>
        \A i \in Segments :
            /\ subtitles[i].text # <<>>
            /\ subtitles[i].text = NormalForm(subtitles[i].text)
            /\ NumLe(Num(0), subtitles[i].start)
            /\ NumLt(subtitles[i].start, subtitles[i].end)

\* the empty text over a positive duration: one segment, empty text, end NaN
C10_Witness ==
    /\ Subtitled
    /\ NormalForm(quote) = <<>>
    /\ Positive(audioDurationSeconds)
    /\ Len(subtitles) = 1
    /\ subtitles[1].text = <<>>
    /\ ~NumLt(subtitles[1].start, subtitles[1].end)

\* C14: for the scenario sentence with duration 6.0 there are at least 2
\* chunks, the first chunk ends at or before the word "okay.", and every chunk
\* except possibly the last has between 2 and 6 words.
C14_Scenario ==
    (Subtitled /\ quote = ScenarioText /\ NumEq(audioDurationSeconds, Num(6))) =>
        LET first == WordsOf(subtitles[1].text)
            okay == CHOOSE k \in 1..Len(ScenarioWords) :
                        /\ ScenarioWords[k] = <<"o", "k", "a", "y", ".">>
                        /\ \A j \in 1..(k - 1) : ~EndsWithPunctuation(ScenarioWords[j])
        IN  /\ Len(subtitles) >= 2
            /\ Len(first) >= 1
            /\ Len(first) <= okay
            /\ first = SubSeq(ScenarioWords, 1, Len(first))
            /\ \A i \in Segments \ {Len(subtitles)} :
                  /\ WordCount(subtitles[i].text) >= 2
                  /\ WordCount(subtitles[i].text) <= 6

C14_Witness ==
    /\ Subtitled
    /\ quote = ScenarioText
    /\ NumEq(audioDurationSeconds, Num(6))
    /\ Len(subtitles) = 4
    /\ WordsOf(subtitles[1].text) = SubSeq(ScenarioWords, 1, 5)
    /\ WordsOf(subtitles[2].text) = SubSeq(ScenarioWords, 6, 8)

\* the k-word prefix of a chunk, joined
ChunkPrefix(text, k) == JoinWith(SubSeq(WordsOf(text), 1, k), <<" ">>)

\* the closing condition on a chunk of k words: at least 2 words and (more
\* than 25 characters or sentence punctuation on the last word), or 6 words
Closes(text, k) ==
    \/ /\ k >= 2
       /\ \/ Len(ChunkPrefix(text, k)) > 25
          \/ EndsWithPunctuation(WordsOf(text)[k])
    \/ k >= 6

\* C15: chunking closes a chunk at the first word at which it has at least 2
\* words and (more than 25 characters or sentence punctuation on that word), or
\* else 6 words: every non-final chunk meets the condition on its last word, no
\* proper prefix of a chunk meets it, and a punctuated first word closes nothing.
C15_GreedyChunking ==
    (Subtitled /\ NormalForm(quote) # <<>>) =>
        \A i \in Segments :
            LET text == subtitles[i].text
                n == WordCount(text)
            IN  /\ n >= 1
                /\ i < Len(subtitles) => Closes(text, n)
                /\ \A k \in 1..(n - 1) : ~Closes(text, k)
                /\ (i < Len(subtitles) /\ EndsWithPunctuation(WordsOf(text)[1])) => n >= 2

C15_Witness ==
    /\ Subtitled
    /\ Len(subtitles) >= 3
    /\ EndsWithPunctuation(WordsOf(subtitles[1].text)[1])
    /\ WordCount(subtitles[1].text) = 2
    /\ WordCount(subtitles[2].text) = 2
    /\ Len(subtitles[2].text) > 25
    /\ ~EndsWithPunctuation(WordsOf(subtitles[2].text)[2])

\* C16: for every segment, (end - start) * totalChars = chunkLength *
\* totalDuration, totalChars being the length of the whole normalized text;
\* hence the durations of any two segments are in the ratio of their lengths.
C16_ProportionalWindows ==
    Subtitled =>
        LET totalChars == Len(NormalForm(quote))
            width(i) == NumAdd(subtitles[i].end, NumMul(Num(-1), subtitles[i].start))
            chunkLength(i) == Len(subtitles[i].text)
        IN  /\ \A i \in Segments :
                  NumEq(NumMul(width(i), Num(totalChars)),
                        NumMul(Num(chunkLength(i)), audioDurationSeconds))
            /\ \A i, j \in Segments :
                  NumEq(NumMul(width(i), Num(chunkLength(j))),
                        NumMul(width(j), Num(chunkLength(i))))

\* a whitespace-only text over a positive duration: the one window is NaN wide
C16_Witness ==
    /\ Subtitled
    /\ NormalForm(quote) = <<>>
    /\ Positive(audioDurationSeconds)
    /\ Len(subtitles) = 1
    /\ IsNaN(subtitles[1].end)
    /\ Len(subtitles[1].text) = 0

---------------------------------------------------------------------------
(* Properties of the App component *)

ActiveRuns == {r \in RunIds : Active(runs[r])}

\* C11: at most one run of generateClip is active at any time: no sequence of
\* clicks on Generate Clip or Apply starts a second run before the running one
\* has finished.
C11_OneRunAtATime == Cardinality(ActiveRuns) <= 1

\* two runs await their TTS response at once, both from the Generate Clip button
C11_Witness ==
    /\ Cardinality({r \in RunIds : runs[r].pc = "tts"}) >= 2
    /\ \A m \in messages : m.type # "suggestion"

\* C12: within one run createSmartSubtitles is called at most once, and only
\* after the TTS response with its audio has arrived and the duration is
\* computed; never in a run whose response carries no audio; and before the
\* run issues its storyboard request or any video request.
C12_SubtitlesOncePerRun ==
    \A r \in RunIds :
        LET run == runs[r]
        IN  /\ run.subtitleCalls <= 1
            /\ run.subtitleCalls = 1 => run.audio = "data"
            /\ run.audio # "data" => run.subtitleCalls = 0
            /\ (run.pc = "tts" /\ NoAudio \in FailuresAt(run)) => run.subtitleCalls = 0
            /\ run.requests \cap {"storyboard", "video"} # {} => run.subtitleCalls = 1
            /\ (Active(run) /\ run.subtitleCalls = 1) =>
                  run.subtitles = createSmartSubtitles(run.quote, run.audioDurationSeconds)

\* one run has made its call and issued its video requests, after another
\* has failed for want of audio
C12_Witness ==
    /\ \E r \in RunIds :
          /\ runs[r].subtitleCalls = 1
          /\ "video" \in runs[r].requests
          /\ Len(runs[r].subtitles) = 2
    /\ error = GenerateError(NoAudio)

\* the step in which run r stores its result
Stores(r) == runs[r].pc = "videos" /\ runs'[r].pc = "suggestion"

\* the step in which a call of generateClip starts as run r
Starts(r) == ~Active(runs[r]) /\ runs'[r].pc = "tts"

\* C13: when a generation begins, the stored result is discarded before any
\* request of it is sent and the clip index is reset to 0; the stored
\* subtitle list is only replaced as a whole, by a generation that completes.
C13_DiscardOnStart ==
    [][/\ \A r \in RunIds :
             Starts(r) => /\ videoData' = null
                          /\ currentClipIndex' = 0
                          /\ runs'[r].requests = {"tts"}
       /\ videoData' # videoData =>
             \/ videoData' = null /\ \E r \in RunIds : Starts(r)
             \/ \E r \in RunIds :
                   /\ Stores(r)
                   /\ videoData'.subtitles = runs[r].subtitles
                   /\ videoData'.subtitles =
                          createSmartSubtitles(runs[r].quote, runs[r].audioDurationSeconds)]_vars

\* a generation has begun after an earlier one delivered its result and its
\* suggestion: nothing is stored, the index is 0, the TTS request is out
C13_Witness ==
    /\ \E m \in messages : m.type = "suggestion"
    /\ \E r \in RunIds : runs[r].pc = "tts" /\ runs[r].requests = {"tts"}
    /\ videoData = null
    /\ currentClipIndex = 0

\* the failures of a run before it stores its result
ListedFailure(r) ==
    /\ runs[r].pc \in {"tts", "storyboard", "videos"}
    /\ runs'[r].pc = "idle"

StartsWith(text, prefix) == Len(text) >= 1 /\ text[1] = prefix

\* C17: when a step of a run fails (TTS response without audio, unparsable
\* storyboard reply, a video operation with an error or without URI, a failed
\* fetch), the run ends with error set to a text starting with 'Failed to
\* generate clip: ', step 'confirm' and loading false, and has stored no result.
C17_FailureHandling ==
    [][\A r \in RunIds :
          ListedFailure(r) =>
              /\ error' # null
              /\ StartsWith(error'.text, "Failed to generate clip: ")
              /\ step' = "confirm"
              /\ loading' = FALSE
              /\ ~runs[r].stored
              /\ videoData' = videoData]_vars

\* a run has failed on a video without URI
C17_Witness ==
    /\ ActiveRuns = {}
    /\ error = GenerateError("Missing video URI")
    /\ step = "confirm"
    /\ ~loading
    /\ videoData = null

\* C18: when source processing fails, an input shorter than 300 characters is
\* offered as the single quote and step becomes 'quote', no error being set;
\* otherwise error is set and step stays as it is ('source'); on failure and
\* on success loading is false when handleProcessSource finishes.
C18_SourceFailure ==
    [][\A input \in SourceInputs :
          /\ SourceFails(input) =>
                /\ Len(input) < 300 =>
                      /\ QuoteSelectWidget(<<input>>) \in messages'
                      /\ step' = "quote"
                      /\ error' = error
                /\ Len(input) >= 300 =>
                      /\ error' # null
                      /\ step' = step
                      /\ messages' = messages
                /\ loading' = FALSE
          /\ \A quotes \in QuoteLists : SourceReply(input, quotes) => loading' = FALSE]_vars

\* both failures have happened: the empty input is offered as a quote, and
\* the 300-character input has set the error
C18_Witness ==
    /\ QuoteSelectWidget(<< <<>> >>) \in messages
    /\ error = ProcessError
    /\ ~loading
    /\ sourceCalls = {}

\* C19: when the last clip ends while playback is active the video restarts
\* from the first clip and plays on, for every sequence length including 1;
\* when another clip ends the next clip is played.
C19_LoopsAndAdvances ==
    [][(handleVideoEnded /\ isPlaying) =>
          LET last == Len(videoData.sequence) - 1
          IN  /\ videoPlaying'
              /\ currentClipIndex' = IF currentClipIndex = last THEN 0 ELSE currentClipIndex + 1]_vars

\* the only clip has ended: the player still counts as playing and the video
\* has stopped
C19_Witness ==
    /\ videoData # null
    /\ Len(videoData.sequence) = 1
    /\ currentClipIndex = 0
    /\ isPlaying
    /\ ~videoPlaying

\* the step after a wizard step
NextStep(s) ==
    CASE s = "source" -> "quote"
      [] s = "quote" -> "voice"
      [] s = "voice" -> "theme"
      [] s = "theme" -> "mood"
      [] s = "mood" -> "format"
      [] s = "format" -> "text"
      [] s = "text" -> "confirm"
      [] s = "confirm" -> "generating"
      [] OTHER -> s

\* C20: a reply of the interpreter with action 'next' and no updates moves the
\* wizard to the next step; a reply with updates changes the configuration and
\* leaves the step unchanged.
C20_CopilotNextAndUpdates ==
    [][\A reply \in CopilotReplies :
          CopilotReply(reply) =>
              IF reply.hasUpdates
              THEN config' = Merge(config, reply.updates) /\ step' = step
              ELSE reply.action = "next" => step' = NextStep(step)]_vars

\* the interpreter has been asked at the voice step and has answered
C20_Witness ==
    /\ step = "voice"
    /\ copilotCalls = 0
    /\ config.voice = "female"

\* C21: whenever video data is present, currentClipIndex is an index of its
\* clip sequence, 0 <= currentClipIndex < sequence length, under every
\* interleaving of clip ends, audio ends, starts and completions of runs.
C21_ClipIndexValid ==
    videoData # null =>
        /\ 0 <= currentClipIndex
        /\ currentClipIndex < Len(videoData.sequence)

\* the player has advanced to the second clip of a stored sequence
C21_Witness ==
    /\ videoData # null
    /\ Len(videoData.sequence) = 2
    /\ currentClipIndex = 1

\* C22: the run that applying a suggestion starts sends the configuration with
\* the suggestion's updates merged in, and the quote, in its requests.
C22_AppliedRunUsesUpdates ==
    [][\A r \in RunIds :
          ApplySuggestion(r) =>
              /\ runs'[r].config = config'
              /\ runs'[r].quote = quote']_vars

\* a suggestion of the female voice has been applied and the run it started
\* is in flight
C22_Witness ==
    /\ config.voice = "female"
    /\ \E r \in RunIds : Active(runs[r]) /\ SuggestionWidget({<<"voice", "female">>}) \in messages

\* C23: a run that has stored its video data and set step to 'done' does not
\* set error or move step to 'confirm' afterwards, whatever becomes of its
\* suggestion request.
C23_StoredRunReportsNoFailure ==
    [][\A r \in RunIds :
          (runs[r].stored /\ runs'[r] # runs[r]) =>
              /\ error' = error
              /\ step' = step]_vars

\* a run has stored its result and awaits the reply to its suggestion request
C23_Witness ==
    /\ videoData # null
    /\ step = "done"
    /\ error = null
    /\ \E r \in RunIds : runs[r].stored /\ runs[r].pc = "suggestion"

====
